---- MODULE Spec2Model ----
(***************************************************************************)
(* HazardSafe-KG: the Ontology->Graph pipeline, the Document->Graph        *)
(* pipeline, CSV ingestion and the knowledge-graph service, over one graph *)
(* backend and one vector store.                                           *)
(*                                                                         *)
(* One pipeline run or service call is in flight at a time (pc); each      *)
(* stage of a pipeline is one action.  The graph backend and the vector    *)
(* store may be reachable or not each time a stage or a call uses them     *)
(* (the parameter up of the operators below).                              *)
(***************************************************************************)
EXTENDS Integers, Sequences, FiniteSets, TLC

\* ------------------------------------------------------------------ bounds
\* operations (pipeline runs and service calls) started in one behaviour
MaxOps == 2

\* ------------------------------------------------------------- vocabulary
\* the validator objects built on BaseValidator
Validators == {"csv", "compat", "compat_reversed"}

\* the coroutines that share one OntologyManager
Tasks == {"t1", "t2"}

Adapters == {"onto", "doc", "csv", "svc"}

NoId == [k |-> "none", n |-> 0]
UuidId(n) == [k |-> "uuid", n |-> n]
UriId(n) == [k |-> "uri", n |-> n]
\* the id "hazard_<text>" that stage 7 of the document pipeline keeps for a hazard
\* entity; no node carries it.  n is the length of the text
HazardId(n) == [k |-> "hazard", n |-> n]

\* texts are sequences of characters, so that the format checks can read them
NoText == << >>
TxtAcid == <<"H", "2", "O">>
TxtCas == <<"1", "-", "2", "3", "-", "4">>
TxtBadName == <<"a", "#">>
TxtCorrosive == <<"c", "o", "r">>
TxtGlass == <<"g", "l">>

\* the forbidden (hazard class, material) table
Incompatibilities(hazard_class) ==
  CASE hazard_class = "corrosive" -> {"aluminum", "carbon_steel"}
    [] hazard_class = "oxidizing" -> {"plastic"}
    [] hazard_class = "flammable" -> {"plastic"}
    [] OTHER -> {}

Forbidden(hazard_class, material) == material \in Incompatibilities(hazard_class)

VARIABLES
  constraints, \* the backend holds the unique-id constraints of initialize_schema
  connected,   \* Neo4jDatabase.connected, per adapter object
  nodes,       \* the graph's nodes, in creation order
  edges,       \* the graph's relationships, in creation order
  chunks,      \* the vector store's records, by id
  uuid,        \* uuid4 values handed out so far
  ops,         \* operations started
  pc,          \* position of the operation in flight
  input,       \* its argument
  work,        \* the pipeline object's fields and the run's locals
  res,         \* the result record being built, then returned
  obs,         \* what the run has sent to the stores so far
  docIds,      \* (content, document_id) of every ingested document
  raised,      \* an exception reached the caller of a public entry point
  validatorErrors, \* BaseValidator.errors of the long-lived validator objects
  metrics_history, \* QualityMetrics.metrics_history of the quality engine
  graph,       \* OntologyManager.graph, a set of triples
  task,        \* the coroutines that call the ontology manager
  running      \* the coroutine the event loop is executing, or "none"

vars == <<constraints, connected, nodes, edges, chunks, uuid,
          ops, pc, input, work, res, obs, docIds, raised, validatorErrors,
          metrics_history, graph, task, running>>

\* the state of the validators and of the quality engine
ontology == <<graph, task, running>>

others == <<validatorErrors, metrics_history, ontology>>

store == <<nodes, edges, chunks>>

\* ------------------------------------------------ graph store adapter
\* Neo4jDatabase.execute_query: the ways a query ends
\* execute_query without its check of the connected flag
ExecuteQuery_NoGuard(a, up) ==
  IF ~up THEN "backend_error"
  ELSE "ok"

\* execute_query: the status of the call
ExecuteQuery(a, up) ==
  IF ~connected[a] THEN "not_connected"
  ELSE IF ~up THEN "backend_error"
  ELSE "ok"

\* execute_query: the session.run calls it makes; the flag is tested before the
\* driver is touched
SessionRuns(a) == IF ~connected[a] THEN 0 ELSE 1

NodesWithId(ns, id) == {i \in 1..Len(ns) : ns[i].id = id}

\* CREATE (n:label {props}) RETURN n.id: [st, nodes, id]
CreateNode(a, up, ns, node) ==
  LET st == ExecuteQuery(a, up) IN
  IF st # "ok" THEN [st |-> st, nodes |-> ns, id |-> NoId]
  ELSE IF constraints /\ \E i \in NodesWithId(ns, node.id) : ns[i].label = node.label
    THEN [st |-> "conflict", nodes |-> ns, id |-> NoId]
  ELSE [st |-> "ok", nodes |-> Append(ns, node), id |-> node.id]

\* the rows MATCH (a), (b) WHERE a.id = $start_id AND b.id = $end_id yields
MatchPairs(ns, start_id, end_id) ==
  NodesWithId(ns, start_id) \X NodesWithId(ns, end_id)

RECURSIVE Repeat(_, _)
Repeat(x, n) == IF n = 0 THEN << >> ELSE <<x>> \o Repeat(x, n - 1)

\* create_relationship as a bare CREATE, without the MATCH of its endpoints
CreateRelationship_NoMatch(a, up, ns, es, start_id, end_id, type, propsOk) ==
  LET st == ExecuteQuery(a, up)
      edge == [src |-> start_id, dst |-> end_id, type |-> type]
  IN
  IF st # "ok" THEN [st |-> st, edges |-> es, created |-> FALSE]
  ELSE IF ~propsOk THEN [st |-> "backend_error", edges |-> es, created |-> FALSE]
  ELSE [st |-> "ok", edges |-> Append(es, edge), created |-> TRUE]

\* MATCH ... CREATE (a)-[r:type {props}]->(b) RETURN r: [st, edges, created]
\* propsOk: every property value is a primitive the backend can store
CreateRelationship(a, up, ns, es, start_id, end_id, type, propsOk) ==
  LET st == ExecuteQuery(a, up)
      rows == Cardinality(MatchPairs(ns, start_id, end_id))
      edge == [src |-> start_id, dst |-> end_id, type |-> type]
  IN
  IF st # "ok" THEN [st |-> st, edges |-> es, created |-> FALSE]
  ELSE IF rows > 0 /\ ~propsOk THEN [st |-> "backend_error", edges |-> es, created |-> FALSE]
  ELSE [st |-> "ok", edges |-> es \o Repeat(edge, rows), created |-> rows > 0]

\* ------------------------------------------- knowledge-graph service (kg)
SubstanceNode(id, name, hazard_class) ==
  [id |-> id, label |-> "HazardousSubstance", name |-> name, attr |-> hazard_class]

ContainerNode(id, name, material) ==
  [id |-> id, label |-> "Container", name |-> name, attr |-> material]

\* KnowledgeGraphService.create_substance: [success, nodes, id]
CreateSubstance(a, up, ns, id, name, hazard_class) ==
  LET r == CreateNode(a, up, ns, SubstanceNode(id, name, hazard_class)) IN
  [success |-> r.st = "ok" /\ r.id # NoId, nodes |-> r.nodes, id |-> r.id]

\* KnowledgeGraphService.create_container: [success, nodes, id]
CreateContainer(a, up, ns, id, name, material) ==
  LET r == CreateNode(a, up, ns, ContainerNode(id, name, material)) IN
  [success |-> r.st = "ok" /\ r.id # NoId, nodes |-> r.nodes, id |-> r.id]

\* KnowledgeGraphService.create_storage_relationship: [success, edges]
\* quantityOk: the quantity argument is a number (a dict cannot be stored)
CreateStorageRelationship(a, up, ns, es, substance_id, container_id, quantityOk) ==
  LET r == CreateRelationship(a, up, ns, es, substance_id, container_id, "STORED_IN",
                              quantityOk) IN
  [success |-> r.st = "ok" /\ r.created, edges |-> r.edges]

\* KnowledgeGraphService.create_compatibility_relationship: [success, edges]
CreateCompatibilityRelationship(a, up, ns, es, substance1_id, substance2_id, is_compatible) ==
  LET type == IF is_compatible THEN "COMPATIBLE_WITH" ELSE "INCOMPATIBLE_WITH"
      r == CreateRelationship(a, up, ns, es, substance1_id, substance2_id, type, TRUE)
  IN [success |-> r.st = "ok" /\ r.created, edges |-> r.edges]

\* KnowledgeGraphService.initialize = connect, then initialize_schema, whose
\* queries log and swallow their failures: the constraints exist afterwards
\* when the queries ran
SchemaAfterInitialize(nowConnected, up) == constraints \/ (nowConnected /\ up)

\* ------------------------------------------- Ontology->Graph pipeline
\* a candidate extracted from the RDF graph: an entity (with uri and data) or a
\* relationship (with source and target)
Entity(type, uri, name, second, attr) ==
  [type |-> type, uri |-> uri, hasData |-> TRUE, name |-> name, second |-> second,
   attr |-> attr, source |-> NoId, target |-> NoId]

Relation(type, source, target) ==
  [type |-> type, uri |-> NoId, hasData |-> FALSE, name |-> NoText, second |-> FALSE,
   attr |-> "", source |-> source, target |-> target]

EntSubstance == Entity("HazardousSubstance", UriId(1), TxtAcid, TRUE, "corrosive")
EntBareSubstance == Entity("HazardousSubstance", UriId(3), NoText, FALSE, "")
EntContainer == Entity("Container", UriId(2), TxtGlass, TRUE, "aluminum")
RelStoredIn == Relation("STORED_IN", UriId(1), UriId(2))
RelCompatible == Relation("COMPATIBLE_WITH", UriId(1), UriId(3))

\* an ontology directory, by what the loader and the SPARQL queries find in it
OntoInput(loadable, shapes, ents, rels) ==
  [loadable |-> loadable, shapes |-> shapes, ents |-> ents, rels |-> rels]

OntoInputs ==
  {OntoInput(FALSE, 0, << >>, << >>),
   OntoInput(TRUE, 1, <<EntSubstance>>, << >>),
   OntoInput(TRUE, 0, << >>, << >>),
   OntoInput(TRUE, 0, <<EntSubstance>>, << >>),
   OntoInput(TRUE, 0, <<EntBareSubstance>>, << >>),
   OntoInput(TRUE, 0, <<EntSubstance, EntContainer>>, << >>),
   OntoInput(TRUE, 0, <<EntSubstance>>, <<RelCompatible>>),
   OntoInput(TRUE, 0, <<EntSubstance, EntContainer>>, <<RelStoredIn>>),
   OntoInput(TRUE, 0, << >>, <<RelStoredIn>>)}

NoWork == [validated_triples |-> << >>, shacl_len |-> 0]

\* pipeline_results as run_pipeline initialises it; a stage not run stays "none"
OntoResults ==
  [kind |-> "onto", step1 |-> "none", step2 |-> "none", step3 |-> "none",
   step4 |-> "none", step5 |-> "none", overall_success |-> FALSE,
   total_entities_created |-> 0, total_relationships_created |-> 0,
   qnum |-> 0, qden |-> 1, quality_issues |-> {}, errors |-> 0, returned |-> FALSE]

\* down: the stage at which the run found a store unreachable
NoObs == [nodeReqs |-> 0, edgeReqs |-> 0, vecReqs |-> 0, validated |-> FALSE, down |-> "none"]

Flag(b) == IF b THEN "ok" ELSE "fail"

\* _validate_entity_with_shacl: pyshacl runs only against a non-empty shapes graph
ValidateEntityWithShacl(e, shacl_len, conforms) == shacl_len = 0 \/ conforms

\* _validate_relationship_with_shacl
ValidateRelationshipWithShacl(r) == r.source # NoId /\ r.target # NoId /\ r.type # ""

RECURSIVE SelectSeq2(_, _)
SelectSeq2(s, keep) ==
  IF s = << >> THEN << >>
  ELSE (IF Head(s) \in keep THEN <<Head(s)>> ELSE << >>) \o SelectSeq2(Tail(s), keep)

RECURSIVE CountSeq(_, _)
CountSeq(s, keep) ==
  IF s = << >> THEN 0 ELSE (IF Head(s) \in keep THEN 1 ELSE 0) + CountSeq(Tail(s), keep)

Range(s) == {s[i] : i \in 1..Len(s)}

\* _assess_data_quality
Complete(t) == t.hasData /\ t.name # NoText /\ t.second /\ t.attr # ""
Accurate(t) == t.type \in {"HazardousSubstance", "Container"}
Consistent(t) == t.uri # NoId /\ t.type # ""

\* quality_score * 10 * Len(triples) = 3 * complete + 4 * accurate + 3 * consistent
QualityNum(triples) ==
  3 * CountSeq(triples, {t \in Range(triples) : Complete(t)})
  + 4 * CountSeq(triples, {t \in Range(triples) : Accurate(t)})
  + 3 * CountSeq(triples, {t \in Range(triples) : Consistent(t)})

\* quality_score >= 0.7
QualityPasses(qnum, qden) == qnum >= 7 * qden

\* the validated triples as a table: a substance row has the cells type, uri,
\* name, chemical_formula and hazard_class, a container row type, uri, name,
\* material and capacity, a relationship row type, source and target; a column a
\* row lacks is a null cell
IsEntityRow(t) == t.hasData
Columns(t) ==
  IF ~IsEntityRow(t) THEN {"type", "source", "target"}
  ELSE IF t.type = "Container" THEN {"type", "uri", "name", "material", "capacity"}
  ELSE {"type", "uri", "name", "chemical_formula", "hazard_class"}
TableColumns(triples) == UNION {Columns(t) : t \in Range(triples)}

\* the cells of one row that hold a string (capacity is a float)
StringCells(t) == Cardinality(Columns(t) \ {"capacity"})

\* the cells of one row that hold an empty string
EmptyCells(t) ==
  IF ~IsEntityRow(t) THEN 0
  ELSE (IF t.name = NoText THEN 1 ELSE 0) + (IF t.attr = "" THEN 1 ELSE 0)
       + (IF t.type # "Container" /\ ~t.second THEN 1 ELSE 0)

RECURSIVE SumSeq(_, _)
SumSeq(s, f) == IF s = << >> THEN 0 ELSE f[Head(s)] + SumSeq(Tail(s), f)

\* QualityMetrics.calculate_completeness: non-null cells and all cells
NonNullCells(triples) ==
  SumSeq(triples, [t \in Range(triples) |-> Cardinality(Columns(t))])
TotalCells(triples) == Len(triples) * Cardinality(TableColumns(triples))

\* QualityMetrics._validate_data_formats: the values checked (non-null, in a
\* string column) and those of them that are empty strings
FormatChecks(triples) == SumSeq(triples, [t \in Range(triples) |-> StringCells(t)])
FormatErrors(triples) == SumSeq(triples, [t \in Range(triples) |-> EmptyCells(t)])

\* QualityMetrics.calculate_uniqueness: the rows left by drop_duplicates
UniqueRows(triples) == Cardinality(Range(triples))

\* QualityMetrics.calculate_timeliness without a timestamp column: 0.8, in percent
DefaultTimeliness == 80

\* calculate_completeness, _validate_data_formats and calculate_uniqueness as
\* fractions <<numerator, denominator>>; no cells give completeness 0, no checked
\* value accuracy 1, no rows uniqueness 0
Metrics(triples) ==
  LET Ratio(num, den, default) == IF den > 0 THEN <<num, den>> ELSE <<default, 1>>
      ck == FormatChecks(triples)
  IN [completeness |-> Ratio(NonNullCells(triples), TotalCells(triples), 0),
      accuracy |-> Ratio(ck - FormatErrors(triples), ck, 1),
      uniqueness |-> Ratio(UniqueRows(triples), Len(triples), 0)]

\* QualityMetrics.calculate_overall_quality_score, as the fraction
\* OverallScoreNum / OverallScoreDen: 0.25 completeness + 0.30 accuracy
\* + 0.20 consistency + 0.15 timeliness + 0.10 uniqueness; the values of a string
\* column are all strings and a batch this small has no value beyond three
\* standard deviations, so type and range consistency are both 1
OverallScoreDen(triples) ==
  LET m == Metrics(triples) IN
  100 * 100 * m.completeness[2] * m.accuracy[2] * m.uniqueness[2]
OverallScoreNum(triples) ==
  LET m == Metrics(triples)
      c == m.completeness
      a == m.accuracy
      u == m.uniqueness
  IN 25 * 100 * c[1] * a[2] * u[2]
     + 30 * 100 * a[1] * c[2] * u[2]
     + 20 * 100 * c[2] * a[2] * u[2]
     + 15 * DefaultTimeliness * c[2] * a[2] * u[2]
     + 10 * 100 * u[1] * c[2] * a[2]

\* QualityMetrics._get_quality_grade with score > 0.9 for an A
GetQualityGrade_Strict(num, den) ==
  IF 10 * num > 9 * den THEN "A"
  ELSE IF 10 * num >= 8 * den THEN "B"
  ELSE IF 10 * num >= 7 * den THEN "C"
  ELSE IF 10 * num >= 6 * den THEN "D"
  ELSE "F"

\* QualityMetrics._get_quality_grade of the score num / den
GetQualityGrade(num, den) ==
  IF 10 * num >= 9 * den THEN "A"
  ELSE IF 10 * num >= 8 * den THEN "B"
  ELSE IF 10 * num >= 7 * den THEN "C"
  ELSE IF 10 * num >= 6 * den THEN "D"
  ELSE "F"

\* the history holding only the latest computation
HistoryAfter_Replace(history, quality_metrics) == <<quality_metrics>>

\* self.metrics_history.append(quality_metrics)
HistoryAfter(history, quality_metrics) == Append(history, quality_metrics)

\* _check_compatibility: the (substance, container) pairs reported as issues
CheckCompatibility(triples) ==
  LET substances == {t \in Range(triples) : t.type = "HazardousSubstance"}
      containers == {t \in Range(triples) : t.type = "Container"}
  IN {<<p[1].uri, p[2].uri>> :
        p \in {q \in substances \X containers :
                 q[1].attr = "corrosive" /\ q[2].attr \in {"aluminum", "carbon_steel"}}}

\* _convert_rdf_to_kg_format and the node loop of _step5_kg_storage: every
\* entity gets a fresh uuid as its id: [nodes, created, errors]
RECURSIVE StoreEntities(_, _, _, _, _)
StoreEntities(a, up, ns, ents, u) ==
  IF ents = << >> THEN [nodes |-> ns, created |-> 0, errors |-> 0]
  ELSE LET e == Head(ents)
           r == IF e.type = "HazardousSubstance"
                THEN CreateSubstance(a, up, ns, UuidId(u + 1), e.name, e.attr)
                ELSE CreateContainer(a, up, ns, UuidId(u + 1), e.name, e.attr)
           rest == StoreEntities(a, up, r.nodes, Tail(ents), u + 1)
       IN [nodes |-> rest.nodes,
           created |-> rest.created + (IF r.success THEN 1 ELSE 0),
           errors |-> rest.errors + (IF r.success THEN 0 ELSE 1)]

\* the relationship loop of _step5_kg_storage; the endpoints are the RDF URIs and
\* the third argument of create_storage_relationship is the properties dict
RECURSIVE StoreRelationships(_, _, _, _, _)
StoreRelationships(a, up, ns, es, rels) ==
  IF rels = << >> THEN [edges |-> es, created |-> 0, errors |-> 0]
  ELSE LET r == Head(rels)
           c == IF r.type = "STORED_IN"
                THEN CreateStorageRelationship(a, up, ns, es, r.source, r.target, FALSE)
                ELSE CreateCompatibilityRelationship(a, up, ns, es, r.source, r.target, TRUE)
           rest == StoreRelationships(a, up, ns, c.edges, Tail(rels))
       IN [edges |-> rest.edges,
           created |-> rest.created + (IF c.success THEN 1 ELSE 0),
           errors |-> rest.errors + (IF c.success THEN 0 ELSE 1)]

IsEntity(t) == t.type \in {"HazardousSubstance", "Container", "SafetyTest", "RiskAssessment"}
IsRelation(t) == t.type \in {"STORED_IN", "COMPATIBLE_WITH"}

\* Neo4jDatabase.connect ends "ok" (connected), "refused" (ServiceUnavailable or
\* AuthError, caught: returns False) or "error" (any other exception, not caught)
ConnectOutcomes(up) == (IF up THEN {"ok"} ELSE {"refused"}) \cup {"error"}

\* KnowledgeGraphService.initialize: [connected, raises]; an exception connect
\* does not catch leaves the connected flag as it was
KgInitialize(a, outcome) ==
  [connected |-> IF outcome = "ok" THEN TRUE
                 ELSE IF outcome = "refused" THEN FALSE
                 ELSE connected[a],
   raises |-> outcome = "error"]

\* Neo4jDatabase.disconnect / KnowledgeGraphService.close: driver.close() may
\* fail, and then connected keeps its value: [connected, raises]
KgClose(a, outcome) ==
  [connected |-> IF outcome = "ok" THEN FALSE ELSE connected[a], raises |-> outcome = "error"]

\* OntologyToKGPipeline.initialize: catches every exception and returns False
PipelineInitialize(outcome) ==
  LET r == KgInitialize("onto", outcome) IN
  [connected |-> r.connected, ok |-> ~r.raises, raises |-> FALSE]

\* close without its try/except
PipelineClose_Propagates(outcome) ==
  LET r == KgClose("onto", outcome) IN [connected |-> r.connected, raises |-> r.raises]

\* OntologyToKGPipeline.close: catches and logs every exception
PipelineClose(outcome) ==
  LET r == KgClose("onto", outcome) IN [connected |-> r.connected, raises |-> FALSE]

\* where control goes when run_pipeline returns inside
\* run_ontology_to_kg_pipeline: the finally block closes the pipeline
OntoAfter == "o_close"

\* run_pipeline after step 4: step 5 follows whatever quality_result holds
AfterQuality(step4) == "o5"

Idle == pc = "idle" /\ ops < MaxOps

\* run_ontology_to_kg_pipeline: a new OntologyToKGPipeline object, initialize(),
\* run_pipeline(), and close() in the finally block
StartOnto(inp) ==
  /\ Idle
  /\ ops' = ops + 1
  /\ pc' = "o_init"
  /\ input' = [entry |-> "run_ontology_to_kg_pipeline", onto |-> inp]
  /\ work' = NoWork
  /\ res' = OntoResults
  /\ obs' = NoObs
  /\ connected' = [connected EXCEPT !["onto"] = FALSE]
  /\ UNCHANGED <<others, constraints, nodes, edges, chunks, uuid, docIds, raised>>

\* pipeline.initialize() in run_ontology_to_kg_pipeline; its return value is not read
OntoInit ==
  /\ pc = "o_init"
  /\ \E up \in BOOLEAN : \E outcome \in ConnectOutcomes(up) :
       LET r == PipelineInitialize(outcome) IN
       /\ connected' = [connected EXCEPT !["onto"] = r.connected]
       /\ constraints' = SchemaAfterInitialize(r.connected, up)
       /\ raised' = (raised \/ r.raises)
       /\ obs' = [obs EXCEPT !.down = IF up THEN @ ELSE "init"]
       /\ pc' = IF r.raises THEN "o_close" ELSE "o1"
  /\ UNCHANGED <<others, nodes, edges, chunks, uuid, ops, input, work, res, docIds>>

\* _step1_ontology_ingestion and lines 96-101 of run_pipeline
OntoStep1 ==
  /\ pc = "o1"
  /\ LET ok == input.onto.loadable IN
     /\ res' = [res EXCEPT !.step1 = Flag(ok),
                           !.errors = IF ok THEN @ ELSE @ + 1,
                           !.returned = ~ok]
     /\ pc' = IF ok THEN "o2" ELSE OntoAfter
  /\ UNCHANGED <<others, constraints, connected, nodes, edges, chunks, uuid, ops,
                 input, work, obs, docIds, raised>>

\* _step2_ontology_management: Graph.add of a four-column query row raises, so
\* the stage fails exactly when the graph holds shapes
OntoStep2 ==
  /\ pc = "o2"
  /\ LET ok == input.onto.shapes = 0 IN
     /\ res' = [res EXCEPT !.step2 = Flag(ok),
                           !.errors = IF ok THEN @ ELSE @ + 1,
                           !.returned = ~ok]
     /\ work' = [work EXCEPT !.shacl_len = 0]
     /\ pc' = IF ok THEN "o3" ELSE OntoAfter
  /\ UNCHANGED <<others, constraints, connected, nodes, edges, chunks, uuid, ops,
                 input, obs, docIds, raised>>

\* _step3_shacl_validation
OntoStep3 ==
  /\ pc = "o3"
  /\ LET ents == input.onto.ents
         rels == input.onto.rels
         validated ==
           SelectSeq2(ents, {e \in Range(ents) : ValidateEntityWithShacl(e, work.shacl_len, TRUE)})
           \o SelectSeq2(rels, {r \in Range(rels) : ValidateRelationshipWithShacl(r)})
         ok == Len(validated) > 0
     IN
     /\ work' = [work EXCEPT !.validated_triples = validated]
     /\ res' = [res EXCEPT !.step3 = Flag(ok),
                           !.errors = IF ok THEN @ ELSE @ + 1,
                           !.returned = ~ok]
     /\ obs' = [obs EXCEPT !.validated = TRUE]
     /\ pc' = IF ok THEN "o4" ELSE OntoAfter
  /\ UNCHANGED <<others, constraints, connected, nodes, edges, chunks, uuid, ops,
                 input, docIds, raised>>

\* _step4_data_quality_check
OntoStep4 ==
  /\ pc = "o4"
  /\ LET vt == work.validated_triples
         empty == vt = << >>
         qnum == IF empty THEN 0 ELSE QualityNum(vt)
         qden == IF empty THEN 1 ELSE Len(vt)
         success == ~empty /\ QualityPasses(qnum, qden)
     IN
     /\ res' = [res EXCEPT !.step4 = Flag(success), !.qnum = qnum, !.qden = qden,
                           !.quality_issues = IF empty THEN {} ELSE CheckCompatibility(vt)]
     /\ pc' = AfterQuality(Flag(success))
  /\ UNCHANGED <<others, constraints, connected, nodes, edges, chunks, uuid, ops,
                 input, work, obs, docIds, raised>>

\* _step5_kg_storage and lines 127-141 of run_pipeline
OntoStep5 ==
  /\ pc = "o5"
  /\ \E up \in BOOLEAN :
     LET vt == work.validated_triples
         ents == SelectSeq2(vt, {t \in Range(vt) : IsEntity(t)})
         rels == SelectSeq2(vt, {t \in Range(vt) : IsRelation(t)})
         se == StoreEntities("onto", up, nodes, ents, uuid)
         sr == StoreRelationships("onto", up, se.nodes, edges, rels)
     IN
     /\ nodes' = se.nodes
     /\ edges' = sr.edges
     /\ uuid' = uuid + Len(ents)
     /\ obs' = [obs EXCEPT !.nodeReqs = @ + Len(ents), !.edgeReqs = @ + Len(rels),
                           !.down = IF up THEN @ ELSE "step5"]
     /\ res' = [res EXCEPT !.step5 = Flag(vt # << >> /\ (se.created > 0 \/ sr.created > 0)),
                           !.total_entities_created = se.created,
                           !.total_relationships_created = sr.created,
                           !.overall_success = TRUE,
                           !.returned = TRUE]
     /\ pc' = OntoAfter
  /\ UNCHANGED <<others, constraints, connected, chunks, ops, input, work, docIds, raised>>

\* the finally block of run_ontology_to_kg_pipeline
OntoClose ==
  /\ pc = "o_close"
  /\ \E outcome \in {"ok", "error"} :
       LET r == PipelineClose(outcome) IN
       /\ connected' = [connected EXCEPT !["onto"] = r.connected]
       /\ raised' = (raised \/ r.raises)
  /\ pc' = "idle"
  /\ UNCHANGED <<others, constraints, nodes, edges, chunks, uuid, ops, input, work,
                 res, obs, docIds>>

\* --------------------------------------------------- validation rules
Digits == {"0", "1", "2", "3", "4", "5", "6", "7", "8", "9"}
AsciiLetters ==
  {"a", "b", "c", "d", "e", "f", "g", "h", "i", "j", "k", "l", "m", "n", "o", "p", "q", "r",
   "s", "t", "u", "v", "w", "x", "y", "z", "A", "B", "C", "D", "E", "F", "G", "H", "I", "J",
   "K", "L", "M", "N", "O", "P", "Q", "R", "S", "T", "U", "V", "W", "X", "Y", "Z"}
Whitespace == {" ", "\n", "\t"}
AllowedChars == AsciiLetters \cup Digits \cup {"(", ")", "[", "]", "{", "}", ".", ",", "-", "_", " "}

RECURSIVE LStrip(_)
LStrip(t) == IF t # << >> /\ Head(t) \in Whitespace THEN LStrip(Tail(t)) ELSE t

RECURSIVE RStrip(_)
RStrip(t) ==
  IF t # << >> /\ t[Len(t)] \in Whitespace THEN RStrip(SubSeq(t, 1, Len(t) - 1)) ELSE t

Strip(t) == RStrip(LStrip(t))

\* ValidationRules.is_valid_chemical_name
IsValidChemicalName(name) ==
  LET n == Strip(name) IN
  /\ name # << >>
  /\ Len(n) >= 1
  /\ \E i \in 1..Len(n) : n[i] \in AsciiLetters
  /\ \A i \in 1..Len(n) : n[i] \in AllowedChars

\* the pattern ^\d{1,7}-\d{2}-\d$ on a text without its optional final newline
MatchesCasPattern(t) ==
  LET n == Len(t) IN
  /\ n >= 6
  /\ n - 5 <= 7
  /\ t[n] \in Digits
  /\ t[n - 1] = "-"
  /\ t[n - 2] \in Digits
  /\ t[n - 3] \in Digits
  /\ t[n - 4] = "-"
  /\ \A i \in 1..(n - 5) : t[i] \in Digits

\* ValidationRules.is_valid_cas_number; $ also matches before a final newline
IsValidCasNumber(cas_number) ==
  /\ cas_number # << >>
  /\ \/ MatchesCasPattern(cas_number)
     \/ /\ cas_number[Len(cas_number)] = "\n"
        /\ MatchesCasPattern(SubSeq(cas_number, 1, Len(cas_number) - 1))

\* --------------------------------------------- Document->Graph pipeline
\* an extracted entity; entity_type is family + "_" + sub, e.g. chemical_cas_number
DocEntity(text, family, sub) == [text |-> text, family |-> family, sub |-> sub]

DocRelation(source, target, type) ==
  [source_entity |-> source, target_entity |-> target, relationship_type |-> type]

ChemAcid == DocEntity(TxtAcid, "chemical", "chemical_formula")
ChemCas == DocEntity(TxtCas, "chemical", "cas_number")
ChemBad == DocEntity(TxtBadName, "chemical", "chemical_name")
HazCorrosive == DocEntity(TxtCorrosive, "hazard", "corrosive")

\* a document, by what the extractors find in it
Document(content, exists, len, doc_type, ents, rels) ==
  [content |-> content, exists |-> exists, len |-> len, doc_type |-> doc_type,
   ents |-> ents, rels |-> rels]

Documents ==
  {Document("missing", FALSE, 0, "safety", << >>, << >>),
   Document("acid is corrosive", TRUE, 100, "safety", <<ChemAcid, HazCorrosive>>,
            <<DocRelation(TxtAcid, TxtCorrosive, "HAS_HAZARD_CLASS")>>),
   Document("cas stored in acid", TRUE, 1500, "auto", <<ChemCas, ChemAcid>>,
            <<DocRelation(TxtCas, TxtAcid, "STORED_IN")>>),
   Document("bad name", TRUE, 100, "auto", <<ChemBad>>, << >>),
   Document("acid stored in glass", TRUE, 100, "safety", <<ChemAcid>>,
            <<DocRelation(TxtAcid, TxtGlass, "STORED_IN")>>)}

\* the path lists given to batch_process_documents
Batches ==
  {<<Document("missing", FALSE, 0, "safety", << >>, << >>),
     Document("bad name", TRUE, 100, "auto", <<ChemBad>>, << >>)>>}

\* chunk_size and overlap passed to create_chunks
ChunkSize == 1000
ChunkOverlap == 200

\* TextProcessor.create_chunks: the number of overlapping windows over len characters
ChunkCount(len) ==
  IF len > ChunkOverlap
  THEN (len - ChunkOverlap + (ChunkSize - ChunkOverlap) - 1) \div (ChunkSize - ChunkOverlap)
  ELSE 1

\* VectorStore.add_document: upsert by id: [ok, chunks]
AddDocument(cs, chunk_id, up) ==
  IF up THEN [ok |-> TRUE, chunks |-> cs \cup {chunk_id}] ELSE [ok |-> FALSE, chunks |-> cs]

ChunkId(document_id, i) == [document_id |-> document_id, chunk_index |-> i]

\* the upsert loop of _create_vector_embeddings; the first failure leaves the loop
RECURSIVE UpsertChunks(_, _, _, _, _)
UpsertChunks(cs, document_id, i, n, up) ==
  IF i >= n THEN [ok |-> TRUE, chunks |-> cs, sent |-> 0]
  ELSE LET r == AddDocument(cs, ChunkId(document_id, i), up) IN
       IF ~r.ok THEN [ok |-> FALSE, chunks |-> cs, sent |-> 1]
       ELSE LET rest == UpsertChunks(r.chunks, document_id, i + 1, n, up) IN
            [ok |-> rest.ok, chunks |-> rest.chunks, sent |-> rest.sent + 1]

\* the verdict of _validate_entities on one entity
Rejected(e) ==
  \/ e.family = "chemical" /\ ~IsValidChemicalName(e.text)
  \/ e.sub = "cas_number" /\ ~IsValidCasNumber(e.text)

\* the entities stage 7 is given: entity_result["entities"], all that stage 3 extracted
EntitiesToStore(entities, valid_entities) == entities

\* the node loop of _store_in_knowledge_graph: [nodes, entity_nodes, created, errors, reqs]
\* entity_nodes maps an entity text to the id its relationships will use
RECURSIVE StoreDocEntities(_, _, _, _, _)
StoreDocEntities(up, ns, entity_nodes, ents, u) ==
  IF ents = << >>
  THEN [nodes |-> ns, entity_nodes |-> entity_nodes, created |-> 0, errors |-> 0, reqs |-> 0]
  ELSE LET e == Head(ents) IN
       IF e.family = "chemical"
       THEN LET r == CreateSubstance("doc", up, ns, UuidId(u + 1), e.text, "")
                m == IF r.success
                     THEN [t \in DOMAIN entity_nodes \cup {e.text} |->
                             IF t = e.text THEN r.id ELSE entity_nodes[t]]
                     ELSE entity_nodes
                rest == StoreDocEntities(up, r.nodes, m, Tail(ents), u + 1)
            IN [nodes |-> rest.nodes, entity_nodes |-> rest.entity_nodes,
                created |-> rest.created + (IF r.success THEN 1 ELSE 0),
                errors |-> rest.errors + (IF r.success THEN 0 ELSE 1),
                reqs |-> rest.reqs + 1]
       ELSE IF e.family = "hazard"
       THEN LET m == IF e.text \in DOMAIN entity_nodes THEN entity_nodes
                     ELSE [t \in DOMAIN entity_nodes \cup {e.text} |->
                             IF t = e.text THEN HazardId(Len(e.text)) ELSE entity_nodes[t]]
            IN StoreDocEntities(up, ns, m, Tail(ents), u)
       ELSE StoreDocEntities(up, ns, entity_nodes, Tail(ents), u)

CountChemical(ents) == CountSeq(ents, {e \in Range(ents) : e.family = "chemical"})

\* the relationship loop of _store_in_knowledge_graph: [edges, created, errors, reqs]
\* KnowledgeGraphService has no create_relationship: HAS_HAZARD_CLASS ends in the
\* except clause without reaching the backend
RECURSIVE StoreDocRelationships(_, _, _, _, _)
StoreDocRelationships(up, ns, es, entity_nodes, rels) ==
  IF rels = << >> THEN [edges |-> es, created |-> 0, errors |-> 0, reqs |-> 0]
  ELSE LET rel == Head(rels)
           resolved == /\ rel.source_entity \in DOMAIN entity_nodes
                       /\ rel.target_entity \in DOMAIN entity_nodes
           stored == resolved /\ rel.relationship_type = "STORED_IN"
           c == IF stored
                THEN CreateStorageRelationship("doc", up, ns, es, entity_nodes[rel.source_entity],
                                               entity_nodes[rel.target_entity], TRUE)
                ELSE [success |-> FALSE, edges |-> es]
           rest == StoreDocRelationships(up, ns, c.edges, entity_nodes, Tail(rels))
       IN [edges |-> rest.edges,
           created |-> rest.created + (IF c.success THEN 1 ELSE 0),
           errors |-> rest.errors
                      + (IF resolved /\ rel.relationship_type = "HAS_HAZARD_CLASS" THEN 1 ELSE 0),
           reqs |-> rest.reqs + (IF stored THEN 1 ELSE 0)]

DocResults ==
  [kind |-> "doc", s1 |-> "none", s2 |-> "none", s3 |-> "none", s4 |-> "none",
   s5 |-> "none", s6 |-> "none", s7 |-> "none", success |-> FALSE, returned |-> FALSE,
   document_id |-> NoId, kg_nodes_created |-> 0, kg_relationships_created |-> 0]

\* the locals of process_document_to_kg, and of batch_process_documents around it
DocWork(queue) ==
  [document_id |-> NoId, valid_entities |-> << >>, invalid_entities |-> << >>,
   entity_nodes |-> << >>, queue |-> queue, successful |-> 0, failed |-> 0]

\* process_document_to_kg without its early returns
AfterStage_NoReturn(ok, next) == next

\* the early returns of process_document_to_kg: a stage result without success
\* is returned at once
AfterStage(ok, next) == IF ok THEN next ELSE "d_ret"

\* the except clause of process_document_to_kg: [success, raises]
ProcessDocumentExcept == [success |-> FALSE, raises |-> FALSE]

\* an exception leaving process_document_to_kg reaches the caller of the entry
\* point, unless the loop of batch_process_documents catches it
Escapes(entry, raises) == raises /\ entry # "batch_process_documents"

\* _ingest_document: the document id is a fresh uuid4
DocumentId(content, u) == UuidId(u + 1)

\* process_document_to_kg
StartDoc(doc) ==
  /\ Idle
  /\ ops' = ops + 1
  /\ pc' = "d1"
  /\ input' = [entry |-> "process_document_to_kg", doc |-> doc]
  /\ work' = DocWork(<< >>)
  /\ res' = DocResults
  /\ obs' = NoObs
  /\ UNCHANGED <<others, constraints, connected, nodes, edges, chunks, uuid, docIds, raised>>

\* the record of a stage in the run's result
DocStage(stage, ok) == [res EXCEPT ![stage] = Flag(ok)]

\* step 1, _ingest_document
DocStep1 ==
  /\ pc = "d1"
  /\ LET ok == input.doc.exists
         id == DocumentId(input.doc.content, uuid)
     IN
     /\ work' = IF ok THEN [work EXCEPT !.document_id = id] ELSE work
     /\ uuid' = IF ok THEN uuid + 1 ELSE uuid
     /\ docIds' = IF ok THEN docIds \cup {<<input.doc.content, id>>} ELSE docIds
     /\ res' = [DocStage("s1", ok) EXCEPT !.document_id = IF ok THEN id ELSE @]
     /\ pc' = AfterStage(ok, "d2")
  /\ UNCHANGED <<others, constraints, connected, nodes, edges, chunks, ops, input, obs, raised>>

\* step 2, _classify_document, for doc_type "auto"; it has no handler of its own,
\* so an exception in it reaches the except clause of process_document_to_kg
DocStep2 ==
  /\ pc = "d2"
  /\ \E ok \in BOOLEAN :
       IF input.doc.doc_type # "auto"
       THEN pc' = "d3" /\ UNCHANGED <<others, res, raised>>
       ELSE /\ res' = DocStage("s2", ok)
            /\ pc' = AfterStage(ok, "d3")
            /\ raised' = (raised \/ (~ok /\ Escapes(input.entry, ProcessDocumentExcept.raises)))
  /\ UNCHANGED <<others, constraints, connected, nodes, edges, chunks, uuid, ops, input,
                 work, obs, docIds>>

\* step 3, _extract_entities; an exception in the extractor is caught in the stage
DocStep3 ==
  /\ pc = "d3"
  /\ \E ok \in BOOLEAN :
       /\ res' = DocStage("s3", ok)
       /\ pc' = AfterStage(ok, "d4")
  /\ UNCHANGED <<others, constraints, connected, nodes, edges, chunks, uuid, ops, input,
                 work, obs, docIds, raised>>

\* step 4, _extract_relationships; an exception in the extractor is caught in the stage
DocStep4 ==
  /\ pc = "d4"
  /\ \E ok \in BOOLEAN :
       /\ res' = DocStage("s4", ok)
       /\ pc' = AfterStage(ok, "d5")
  /\ UNCHANGED <<others, constraints, connected, nodes, edges, chunks, uuid, ops, input,
                 work, obs, docIds, raised>>

\* step 5, _create_vector_embeddings
DocStep5 ==
  /\ pc = "d5"
  /\ \E up \in BOOLEAN :
     LET r == UpsertChunks(chunks, work.document_id, 0, ChunkCount(input.doc.len), up) IN
     /\ chunks' = r.chunks
     /\ obs' = [obs EXCEPT !.vecReqs = @ + r.sent, !.down = IF r.ok THEN @ ELSE "s5"]
     /\ res' = DocStage("s5", r.ok)
     /\ pc' = AfterStage(r.ok, "d6")
  /\ UNCHANGED <<others, constraints, connected, nodes, edges, uuid, ops, input, work,
                 docIds, raised>>

\* step 6, _validate_entities
DocStep6 ==
  /\ pc = "d6"
  /\ LET ents == input.doc.ents IN
     /\ work' = [work EXCEPT
                   !.valid_entities = SelectSeq2(ents, {e \in Range(ents) : ~Rejected(e)}),
                   !.invalid_entities = SelectSeq2(ents, {e \in Range(ents) : Rejected(e)})]
     /\ obs' = [obs EXCEPT !.validated = TRUE]
     /\ res' = DocStage("s6", TRUE)
     /\ pc' = AfterStage(TRUE, "d7")
  /\ UNCHANGED <<others, constraints, connected, nodes, edges, chunks, uuid, ops, input,
                 docIds, raised>>

\* step 7, _store_in_knowledge_graph, and the summary of process_document_to_kg
DocStep7 ==
  /\ pc = "d7"
  /\ \E up \in BOOLEAN :
     LET ents == EntitiesToStore(input.doc.ents, work.valid_entities)
         se == StoreDocEntities(up, nodes, << >>, ents, uuid)
         sr == StoreDocRelationships(up, se.nodes, edges, se.entity_nodes, input.doc.rels)
     IN
     /\ nodes' = se.nodes
     /\ edges' = sr.edges
     /\ uuid' = uuid + CountChemical(ents)
     /\ obs' = [obs EXCEPT !.nodeReqs = @ + se.reqs, !.edgeReqs = @ + sr.reqs,
                           !.down = IF se.reqs > 0 /\ ~up THEN "s7" ELSE @]
     /\ res' = [DocStage("s7", TRUE) EXCEPT !.success = TRUE,
                                            !.kg_nodes_created = se.created,
                                            !.kg_relationships_created = sr.created]
     /\ work' = [work EXCEPT !.entity_nodes = se.entity_nodes]
     /\ pc' = "d_ret"
  /\ UNCHANGED <<others, constraints, connected, chunks, ops, input, docIds, raised>>

\* process_document_to_kg returns, to its caller or to the loop of
\* batch_process_documents, which counts the result and takes the next path
DocReturn ==
  /\ pc = "d_ret"
  /\ IF input.entry = "process_document_to_kg"
     THEN /\ res' = [res EXCEPT !.returned = TRUE]
          /\ pc' = "idle"
          /\ UNCHANGED <<others, input, work, obs>>
     ELSE LET successful == work.successful + (IF res.success THEN 1 ELSE 0)
              failed == work.failed + (IF res.success THEN 0 ELSE 1)
          IN
          IF work.queue = << >>
          THEN /\ res' = [kind |-> "batch", successful |-> successful, failed |-> failed,
                          returned |-> TRUE]
               /\ pc' = "idle"
               /\ work' = [work EXCEPT !.successful = successful, !.failed = failed]
               /\ UNCHANGED <<others, input, obs>>
          ELSE /\ input' = [input EXCEPT !.doc = Head(work.queue)]
               /\ work' = [DocWork(Tail(work.queue)) EXCEPT !.successful = successful,
                                                           !.failed = failed]
               /\ res' = DocResults
               /\ obs' = NoObs
               /\ pc' = "d1"
  /\ UNCHANGED <<others, constraints, connected, nodes, edges, chunks, uuid, ops, docIds, raised>>

\* batch_process_documents
StartBatch(docs) ==
  /\ Idle
  /\ docs # << >>
  /\ ops' = ops + 1
  /\ pc' = "d1"
  /\ input' = [entry |-> "batch_process_documents", doc |-> Head(docs)]
  /\ work' = DocWork(Tail(docs))
  /\ res' = DocResults
  /\ obs' = NoObs
  /\ UNCHANGED <<others, constraints, connected, nodes, edges, chunks, uuid, docIds, raised>>

\* ------------------------------------------------------------ CSV ingestion
CsvId(n) == [k |-> "csv", n |-> n]

\* a row of a CSV file; conforms: the ontology's shapes accept the substance
Row(id, name, attr, molecular_weight, conforms) ==
  [id |-> id, name |-> name, attr |-> attr, molecular_weight |-> molecular_weight,
   conforms |-> conforms]

CsvFile(data_type, columns, rows) == [data_type |-> data_type, columns |-> columns, rows |-> rows]

CsvFiles ==
  {CsvFile("substances", {"id", "name", "hazard_class"},
           <<Row(CsvId(1), TxtAcid, "corrosive", 0, TRUE)>>),
   CsvFile("substances", {"name", "hazard_class", "molecular_weight"},
           <<Row(NoId, TxtAcid, "unknown_hazard", 18, FALSE),
             Row(NoId, TxtBadName, "toxic", 18, TRUE)>>),
   CsvFile("substances", {"name", "molecular_weight"},
           <<Row(NoId, TxtAcid, "", 18, TRUE)>>),
   CsvFile("containers", {"id", "name", "material", "capacity"},
           <<Row(CsvId(2), TxtGlass, "aluminum", 0, TRUE)>>),
   CsvFile("shipments", {"name"}, <<Row(NoId, TxtAcid, "", 0, TRUE)>>)}

\* ValidationEngine._load_validation_rules: required_fields
RequiredFields(data_type) ==
  CASE data_type = "substances" -> <<"name", "hazard_class">>
    [] data_type = "containers" -> <<"name", "material", "capacity">>
    [] data_type = "tests" -> <<"name", "test_type">>
    [] data_type = "assessments" -> <<"title", "substance_id", "risk_level">>
    [] OTHER -> << >>

\* the keys of one data type's rules
RuleKeys(data_type) ==
  CASE data_type = "substances" -> {"required_fields", "field_types", "hazard_classes", "constraints"}
    [] data_type = "containers" -> {"required_fields", "field_types", "materials", "constraints"}
    [] OTHER -> {}

HazardClasses ==
  {"flammable", "toxic", "corrosive", "explosive", "oxidizing", "environmental", "health"}

\* the constraint on molecular_weight
MolecularWeightMin == 0
MolecularWeightMax == 10000

Error(kind, field) == [kind |-> kind, field |-> field]

\* _validate_constraints on the molecular_weight column (every cell is a number,
\* so _validate_field_type adds no error)
ValidateConstraints(rows) ==
  LET numeric == {rows[i].molecular_weight : i \in 1..Len(rows)} IN
  (IF \E x \in numeric : x < MolecularWeightMin
     THEN <<Error("below_min", "molecular_weight")>> ELSE << >>)
  \o (IF \E x \in numeric : x > MolecularWeightMax
        THEN <<Error("above_max", "molecular_weight")>> ELSE << >>)

\* _validate_field_values on the hazard_class column; an empty cell is null
ValidateFieldValues(rows) ==
  IF \E i \in 1..Len(rows) : rows[i].attr \notin HazardClasses /\ rows[i].attr # ""
  THEN <<Error("value", "hazard_class")>> ELSE << >>

\* validate_csv_structure: [valid, errors]
ValidateCsvStructure(file) ==
  IF file.data_type \notin {"substances", "containers", "tests", "assessments"}
  THEN [valid |-> FALSE, errors |-> <<Error("unknown_type", file.data_type)>>]
  ELSE
    LET required == RequiredFields(file.data_type)
        missing == [i \in 1..Len(required) |-> Error("missing", required[i])]
        errors ==
          SelectSeq(missing, LAMBDA e : e.field \notin file.columns)
          \o (IF file.data_type = "substances" /\ "molecular_weight" \in file.columns
                THEN ValidateConstraints(file.rows)
                ELSE << >>)
          \o (IF /\ file.data_type = "substances"
                 /\ "hazard_class" \in file.columns
                 /\ "hazard_class" \in RuleKeys(file.data_type)
                THEN ValidateFieldValues(file.rows) ELSE << >>)
    IN [valid |-> errors = << >>, errors |-> errors]

\* the row loop of _ingest_substances and _ingest_containers: [nodes, ingested, reqs]
RECURSIVE IngestRows(_, _, _, _, _)
IngestRows(up, ns, file, rows, u) ==
  IF rows = << >> THEN [nodes |-> ns, ingested |-> 0, reqs |-> 0]
  ELSE LET row == Head(rows)
           id == IF "id" \in file.columns THEN row.id ELSE UuidId(u + 1)
           u2 == IF "id" \in file.columns THEN u ELSE u + 1
           node == IF file.data_type = "substances"
                   THEN SubstanceNode(id, row.name, row.attr)
                   ELSE ContainerNode(id, row.name, row.attr)
           skip == file.data_type = "substances" /\ ~row.conforms
           r == IF skip THEN [st |-> "skipped", nodes |-> ns, id |-> NoId]
                ELSE CreateNode("csv", up, ns, node)
           rest == IngestRows(up, r.nodes, file, Tail(rows), u2)
       IN [nodes |-> rest.nodes,
           ingested |-> rest.ingested + (IF r.st = "ok" THEN 1 ELSE 0),
           reqs |-> rest.reqs + (IF skip THEN 0 ELSE 1)]

\* ingest_csv_data going to the row loop without validate_csv_structure
FirstCsvStep_Ingest == "c_ingest"

\* ingest_csv_data: after read_csv comes validate_csv_structure
FirstCsvStep == "c_validate"

CsvResults == [kind |-> "csv", success |-> FALSE, ingested_count |-> 0, returned |-> FALSE]

\* HazardousDataIngestion.ingest_csv_data
StartCsv(file) ==
  /\ Idle
  /\ ops' = ops + 1
  /\ pc' = FirstCsvStep
  /\ input' = [entry |-> "ingest_csv_data", file |-> file]
  /\ work' = NoWork
  /\ res' = CsvResults
  /\ obs' = NoObs
  /\ UNCHANGED <<others, constraints, connected, nodes, edges, chunks, uuid, docIds, raised>>

\* validate_csv_structure and the early return of ingest_csv_data
CsvValidate ==
  /\ pc = "c_validate"
  /\ LET valid == ValidateCsvStructure(input.file).valid IN
     /\ obs' = [obs EXCEPT !.validated = TRUE]
     /\ res' = [res EXCEPT !.returned = ~valid]
     /\ pc' = IF valid THEN "c_ingest" ELSE "idle"
  /\ UNCHANGED <<others, constraints, connected, nodes, edges, chunks, uuid, ops, input, work,
                 docIds, raised>>

\* _ingest_substances / _ingest_containers; the other data types are not modelled
CsvIngest ==
  /\ pc = "c_ingest"
  /\ \E up \in BOOLEAN :
     LET file == input.file
         r == IngestRows(up, nodes, file, file.rows, uuid)
     IN
     /\ nodes' = r.nodes
     /\ uuid' = IF "id" \in file.columns THEN uuid ELSE uuid + Len(file.rows)
     /\ obs' = [obs EXCEPT !.nodeReqs = @ + r.reqs,
                           !.down = IF r.reqs > 0 /\ ~up THEN "ingest" ELSE @]
     /\ res' = [res EXCEPT !.success = TRUE, !.ingested_count = r.ingested, !.returned = TRUE]
     /\ pc' = "idle"
  /\ UNCHANGED <<others, constraints, connected, edges, chunks, ops, input, work, docIds, raised>>

\* ------------------------------------------------------------ service calls
\* an id no node carries
UnknownId == UriId(9)

IdsOf(ns) == {ns[i].id : i \in 1..Len(ns)}

\* a caller of KnowledgeGraphService.create_storage_relationship
SvcCreateStorageRelationship(substance_id, container_id) ==
  /\ Idle
  /\ ops' = ops + 1
  /\ \E up \in BOOLEAN :
     LET r == CreateStorageRelationship("svc", up, nodes, edges, substance_id, container_id,
                                        TRUE)
     IN
     /\ edges' = r.edges
     /\ input' = [entry |-> "create_storage_relationship", substance_id |-> substance_id,
                  container_id |-> container_id]
     /\ res' = [kind |-> "svc", success |-> r.success, returned |-> TRUE]
     /\ obs' = [NoObs EXCEPT !.edgeReqs = 1,
                             !.down = IF up THEN @ ELSE "call"]
  /\ work' = NoWork
  /\ UNCHANGED <<others, constraints, connected, nodes, chunks, uuid, pc, docIds, raised>>

\* DocumentToKGPipeline.initialize / HazardousDataIngestion.initialize /
\* KnowledgeGraphService.initialize of the long-lived objects
Initialize(a) ==
  /\ pc = "idle"
  /\ ~connected[a]
  /\ \E up \in BOOLEAN : \E outcome \in ConnectOutcomes(up) :
       LET r == KgInitialize(a, outcome) IN
       /\ connected' = [connected EXCEPT ![a] = r.connected]
       /\ constraints' = IF a = "csv" THEN constraints
                         ELSE SchemaAfterInitialize(r.connected, up)
  /\ UNCHANGED <<others, nodes, edges, chunks, uuid, ops, pc, input, work, res, obs,
                 docIds, raised>>

\* ------------------------------------------------------------ environment
\* ---------------------------------------------------------- specification
Init ==
  /\ constraints = FALSE
  /\ connected = [a \in Adapters |-> FALSE]
  /\ nodes = << >>
  /\ edges = << >>
  /\ chunks = {}
  /\ uuid = 0
  /\ ops = 0
  /\ pc = "idle"
  /\ input = [entry |-> "none"]
  /\ work = NoWork
  /\ res = [kind |-> "none", returned |-> FALSE]
  /\ obs = NoObs
  /\ docIds = {}
  /\ raised = FALSE
  /\ validatorErrors = [v \in Validators |-> << >>]
  /\ metrics_history = << >>
  /\ graph = {}
  /\ task = [t \in Tasks |-> [pc |-> "idle"]]
  /\ running = "none"

Next ==
  \/ \E inp \in OntoInputs : StartOnto(inp)
  \/ OntoInit
  \/ OntoStep1
  \/ OntoStep2
  \/ OntoStep3
  \/ OntoStep4
  \/ OntoStep5
  \/ OntoClose
  \/ \E doc \in Documents : StartDoc(doc)
  \/ DocStep1
  \/ DocStep2
  \/ DocStep3
  \/ DocStep4
  \/ DocStep5
  \/ DocStep6
  \/ DocStep7
  \/ DocReturn
  \/ \E docs \in Batches : StartBatch(docs)
  \/ \E file \in CsvFiles : StartCsv(file)
  \/ CsvValidate
  \/ CsvIngest
  \/ \E substance_id \in IdsOf(nodes), container_id \in IdsOf(nodes) \cup {UnknownId} :
       SvcCreateStorageRelationship(substance_id, container_id)
  \/ \E a \in {"doc", "csv", "svc"} : Initialize(a)


Spec == Init /\ [][Next]_vars


\* ------------------------------------------- rules on records and batches
\* the calls of the validation engine and of the graph service on one record
RiskLevels == {"low", "medium", "high", "critical"}

TxtProcedure == <<"e">>

Assessment(risk_level, emergency_procedures, ppe_required) ==
  [risk_level |-> risk_level, emergency_procedures |-> emergency_procedures,
   ppe_required |-> ppe_required]

Assessments ==
  {Assessment(l, e, p) : l \in RiskLevels, e \in {NoText, TxtProcedure},
                         p \in {NoText, TxtProcedure}}

\* ValidationEngine.validate_safety_rules(data, "assessment"): [valid, errors]
ValidateSafetyRules(data) ==
  LET errors ==
        (IF data.risk_level = "high" /\ data.emergency_procedures = NoText
           THEN <<[kind |-> "high_risk", missing |-> "emergency_procedures"]>> ELSE << >>)
        \o
        (IF data.risk_level = "critical" /\ data.ppe_required = NoText
           THEN <<[kind |-> "critical_risk", missing |-> "ppe_required"]>> ELSE << >>)
  IN [valid |-> errors = << >>, errors |-> errors]

AssessmentNode(id, data) ==
  [id |-> id, label |-> "RiskAssessment", name |-> NoText, attr |-> data.risk_level,
   emergency_procedures |-> data.emergency_procedures,
   ppe_required |-> data.ppe_required]

\* KnowledgeGraphService.create_assessment: [success, nodes, id]
CreateAssessment(a, up, ns, id, data) ==
  LET r == CreateNode(a, up, ns, AssessmentNode(id, data)) IN
  [success |-> r.st = "ok" /\ r.id # NoId, nodes |-> r.nodes, id |-> r.id]

\* a caller of KnowledgeGraphService.create_assessment
SvcCreateAssessment(data) ==
  /\ Idle
  /\ ops' = ops + 1
  /\ uuid' = uuid + 1
  /\ \E up \in BOOLEAN :
     LET r == CreateAssessment("svc", up, nodes, UuidId(uuid + 1), data) IN
     /\ nodes' = r.nodes
     /\ input' = [entry |-> "create_assessment", data |-> data]
     /\ res' = [kind |-> "svc", success |-> r.success, returned |-> TRUE]
  /\ UNCHANGED <<others, constraints, connected, edges, chunks, pc, work, obs, docIds, raised>>

RulesNext ==
  \/ \E data \in Assessments : SvcCreateAssessment(data)
  \/ Initialize("svc")

RulesSpec == Init /\ [][RulesNext]_vars


\* ------------------------------------- Ontology->Graph runs on more pairs
EntFlammable == Entity("HazardousSubstance", UriId(4), TxtAcid, TRUE, "flammable")
EntOxidizing == Entity("HazardousSubstance", UriId(5), TxtAcid, TRUE, "oxidizing")
EntPlastic == Entity("Container", UriId(6), TxtGlass, TRUE, "plastic")
EntSteel == Entity("Container", UriId(7), TxtGlass, TRUE, "carbon_steel")
RelFlammableInPlastic == Relation("STORED_IN", UriId(4), UriId(6))
RelOxidizingFlammable == Relation("COMPATIBLE_WITH", UriId(5), UriId(4))

PairInputs ==
  {OntoInput(TRUE, 0, <<EntSubstance, EntContainer>>, << >>),
   OntoInput(TRUE, 0, <<EntSubstance, EntSteel, EntPlastic>>, << >>),
   OntoInput(TRUE, 0, <<EntFlammable, EntPlastic>>, << >>),
   OntoInput(TRUE, 0, <<EntFlammable, EntPlastic>>, <<RelFlammableInPlastic>>),
   OntoInput(TRUE, 0, <<EntOxidizing, EntFlammable>>, <<RelOxidizingFlammable>>),
   OntoInput(TRUE, 0, <<EntOxidizing, EntFlammable, EntPlastic, EntContainer>>, << >>)}

PairsNext ==
  \/ \E inp \in PairInputs : StartOnto(inp)
  \/ OntoInit
  \/ OntoStep1
  \/ OntoStep2
  \/ OntoStep3
  \/ OntoStep4
  \/ OntoStep5
  \/ OntoClose

PairsSpec == Init /\ [][PairsNext]_vars


\* ------------------------------------------------- calls of the validators
\* molecular weights around the two bounds
Weights == {-1, 0, 1, 9999, 10000, 10001}

\* substances batches: complete ones with one weight each, and ones lacking
\* required columns
Tables ==
  {CsvFile("substances", {"name", "hazard_class", "molecular_weight"},
           <<Row(NoId, TxtAcid, "toxic", w, TRUE)>>) : w \in Weights}
  \cup
  {CsvFile("substances", {"molecular_weight"}, <<Row(NoId, TxtAcid, "", 10001, TRUE)>>),
   CsvFile("substances", {"name", "molecular_weight"}, <<Row(NoId, TxtAcid, "", -1, TRUE)>>),
   CsvFile("substances", {"hazard_class"}, <<Row(NoId, TxtAcid, "unknown_hazard", 18, TRUE)>>),
   CsvFile("substances", {"name", "hazard_class"}, <<Row(NoId, TxtAcid, "unknown_hazard", 18, TRUE)>>)}

\* ValidationRules.is_valid_molecular_weight
IsValidMolecularWeight(weight) == 0 < weight /\ weight < 10000

\* CSVValidator._validate_row: the errors one row adds, for rules whose
\* required_columns and valid_hazard_classes are those of the engine
ValidateRow(row, required_columns) ==
  (IF "name" \in Range(required_columns) /\ row.name = NoText
     THEN <<Error("missing_value", "name")>> ELSE << >>)
  \o (IF "hazard_class" \in Range(required_columns) /\ row.attr = ""
        THEN <<Error("missing_value", "hazard_class")>> ELSE << >>)
  \o (IF row.attr # "" /\ row.attr \notin HazardClasses
        THEN <<Error("value", "hazard_class")>> ELSE << >>)

RECURSIVE ValidateRows(_, _)
ValidateRows(rows, required_columns) ==
  IF rows = << >> THEN << >>
  ELSE ValidateRow(Head(rows), required_columns) \o ValidateRows(Tail(rows), required_columns)

\* CSVValidator.validate: the validator's errors after the call
CsvValidatorValidate(errors, file) ==
  LET required_columns == RequiredFields(file.data_type)
      missing == {required_columns[i] : i \in 1..Len(required_columns)} \ file.columns
  IN IF missing # {}
     THEN Append(errors, [kind |-> "missing", columns |-> missing])
     ELSE errors \o ValidateRows(file.rows, required_columns)

\* the order of two chemical names as Python's sorted sees them
Chemicals == <<"Acetone", "H2SO4", "HCl", "NaOH", "Toluene">>
Sorted(chem1, chem2) ==
  LET Rank(chem) == CHOOSE i \in 1..Len(Chemicals) : Chemicals[i] = chem IN
  IF Rank(chem1) <= Rank(chem2) THEN <<chem1, chem2>> ELSE <<chem2, chem1>>

\* the rule lists the validators are built with: compat_rules of the test, and a
\* list whose incompatible rule names the larger chemical first
RulesOf(v) ==
  IF v = "compat"
  THEN <<<<"H2SO4", "NaOH", "incompatible">>, <<"H2SO4", "HCl", "compatible">>,
         <<"Toluene", "Acetone", "compatible">>>>
  ELSE <<<<"NaOH", "H2SO4", "incompatible">>>>

\* self.compatibility_rules.get(pair, 'unknown'): the dict is keyed by the first
\* two fields of each rule as given, a later rule replacing an earlier one
CompatibilityRules(rules, pair) ==
  LET hits == {k \in 1..Len(rules) : <<rules[k][1], rules[k][2]>> = pair} IN
  IF hits = {} THEN "unknown"
  ELSE rules[CHOOSE k \in hits : \A m \in hits : m <= k][3]

ChemicalLists ==
  {<<"H2SO4", "NaOH">>, <<"NaOH", "H2SO4">>, <<"H2SO4", "HCl">>, <<"H2SO4", "NaOH", "Toluene">>}

\* CompatibilityValidator.validate: the validator's errors after the call
CompatibilityValidate(rules, errors, chemicals) ==
  LET pairs == [k \in 1..(Len(chemicals) * Len(chemicals)) |->
                  <<((k - 1) \div Len(chemicals)) + 1, ((k - 1) % Len(chemicals)) + 1>>]
      later == SelectSeq(pairs, LAMBDA q : q[1] < q[2])
      incompatible ==
        SelectSeq(later, LAMBDA q :
          CompatibilityRules(rules, Sorted(chemicals[q[1]], chemicals[q[2]])) = "incompatible")
  IN errors \o [k \in 1..Len(incompatible) |->
                  [kind |-> "incompatible",
                   chemicals |-> <<chemicals[incompatible[k][1]],
                                   chemicals[incompatible[k][2]]>>]]

\* BaseValidator.get_report
GetReport(errors) ==
  [kind |-> "report", errors |-> errors, valid |-> errors = << >>, returned |-> TRUE]

\* a call of one validation entry point on one record
Validation(entry, data, report) ==
  /\ Idle
  /\ ops' = ops + 1
  /\ input' = [entry |-> entry, data |-> data]
  /\ res' = report
  /\ UNCHANGED <<constraints, connected, nodes, edges, chunks, uuid, pc, work, obs,
                 docIds, raised, metrics_history, ontology>>

\* ValidationEngine.validate_csv_structure on a table
CallValidateCsvStructure(file) ==
  /\ Validation("validate_csv_structure", file, GetReport(ValidateCsvStructure(file).errors))
  /\ UNCHANGED validatorErrors

\* ValidationRules.is_valid_molecular_weight on one value
CallIsValidMolecularWeight(weight) ==
  /\ Validation("is_valid_molecular_weight", [molecular_weight |-> weight],
                [kind |-> "report", errors |-> << >>,
                 valid |-> IsValidMolecularWeight(weight), returned |-> TRUE])
  /\ UNCHANGED validatorErrors

\* ValidationEngine.validate_safety_rules on an assessment
CallValidateSafetyRules(data) ==
  /\ Validation("validate_safety_rules", data,
                [kind |-> "report", errors |-> ValidateSafetyRules(data).errors,
                 valid |-> ValidateSafetyRules(data).valid, returned |-> TRUE])
  /\ UNCHANGED validatorErrors

\* CSVValidator.validate, then get_report, on the long-lived validator
CallCsvValidator(file) ==
  /\ Validation("CSVValidator.validate", file,
                GetReport(CsvValidatorValidate(validatorErrors["csv"], file)))
  /\ validatorErrors' =
       [validatorErrors EXCEPT !["csv"] = CsvValidatorValidate(validatorErrors["csv"], file)]

\* CompatibilityValidator.validate, then get_report, on the long-lived validator
CallCompatibilityValidator(v, chemicals) ==
  /\ Validation("CompatibilityValidator.validate",
                [rules |-> RulesOf(v), chemicals |-> chemicals],
                GetReport(CompatibilityValidate(RulesOf(v), validatorErrors[v], chemicals)))
  /\ validatorErrors' =
       [validatorErrors EXCEPT
          ![v] = CompatibilityValidate(RulesOf(v), validatorErrors[v], chemicals)]

ValidatorNext ==
  \/ \E file \in Tables : CallValidateCsvStructure(file)
  \/ \E weight \in Weights : CallIsValidMolecularWeight(weight)
  \/ \E data \in {a \in Assessments : a.ppe_required = NoText} : CallValidateSafetyRules(data)
  \/ \E file \in Tables : CallCsvValidator(file)
  \/ \E v \in Validators \ {"csv"}, chemicals \in ChemicalLists :
       CallCompatibilityValidator(v, chemicals)

ValidatorSpec == Init /\ [][ValidatorNext]_vars


\* ------------------------------------------------ calls of the quality engine
\* batches for the engine, as tables of triples
QualityTables ==
  {<< >>, <<EntSubstance>>, <<EntBareSubstance>>, <<EntBareSubstance, EntBareSubstance>>,
   <<RelStoredIn, EntBareSubstance, EntBareSubstance, EntBareSubstance>>,
   <<RelStoredIn, EntSubstance>>}

\* scores around the grade bounds, in thousandths
Scores == {0, 599, 600, 699, 700, 799, 800, 899, 900, 1000}

\* QualityMetrics.calculate_overall_quality_score; the timestamp is the number
\* of the call
CalculateOverallQualityScore(data) ==
  /\ Idle
  /\ ops' = ops + 1
  /\ input' = [entry |-> "calculate_overall_quality_score", data |-> data]
  /\ LET quality_metrics ==
           [overall_score |-> <<OverallScoreNum(data), OverallScoreDen(data)>>,
            quality_grade |-> GetQualityGrade(OverallScoreNum(data), OverallScoreDen(data)),
            timestamp |-> ops + 1]
     IN /\ metrics_history' = HistoryAfter(metrics_history, quality_metrics)
        /\ res' = [kind |-> "quality", quality_metrics |-> quality_metrics, returned |-> TRUE]
  /\ UNCHANGED <<validatorErrors, ontology, constraints, connected, nodes, edges, chunks, uuid, pc,
                 work, obs, docIds, raised>>

\* QualityMetrics.get_metrics_history
GetMetricsHistory ==
  /\ Idle
  /\ ops' = ops + 1
  /\ input' = [entry |-> "get_metrics_history"]
  /\ res' = [kind |-> "history", history |-> metrics_history, returned |-> TRUE]
  /\ UNCHANGED <<others, constraints, connected, nodes, edges, chunks, uuid, pc,
                 work, obs, docIds, raised>>

\* QualityMetrics._get_quality_grade on one score
CallGetQualityGrade(score) ==
  /\ Idle
  /\ ops' = ops + 1
  /\ input' = [entry |-> "_get_quality_grade", data |-> score]
  /\ res' = [kind |-> "grade", quality_grade |-> GetQualityGrade(score, 1000),
             returned |-> TRUE]
  /\ UNCHANGED <<others, constraints, connected, nodes, edges, chunks, uuid, pc,
                 work, obs, docIds, raised>>

QualityNext ==
  \/ \E data \in QualityTables : CalculateOverallQualityScore(data)
  \/ GetMetricsHistory
  \/ \E score \in Scores : CallGetQualityGrade(score)

QualitySpec == Init /\ [][QualityNext]_vars

\* ------------------------------------------------- graph adapter, called directly
\* a caller's Neo4jDatabase object: connect, disconnect and the operations, in any
\* order
AdapterNodes ==
  {SubstanceNode(UriId(1), TxtAcid, TxtCorrosive), ContainerNode(UriId(2), TxtGlass, TxtGlass)}

\* Neo4jDatabase.connect
Connect ==
  /\ pc = "idle"
  /\ \E up \in BOOLEAN : \E outcome \in ConnectOutcomes(up) :
       LET r == KgInitialize("svc", outcome) IN
       /\ connected' = [connected EXCEPT !["svc"] = r.connected]
       /\ input' = [entry |-> "connect"]
       /\ res' = [kind |-> "connect", value |-> outcome = "ok", returned |-> ~r.raises]
  /\ obs' = NoObs
  /\ work' = NoWork
  /\ UNCHANGED <<others, constraints, nodes, edges, chunks, uuid, ops, pc, docIds, raised>>

\* Neo4jDatabase.disconnect: the flag is cleared after driver.close() returns
Disconnect ==
  /\ pc = "idle"
  /\ \E outcome \in {"ok", "error"} :
       LET r == KgClose("svc", outcome) IN
       /\ connected' = [connected EXCEPT !["svc"] = r.connected]
       /\ res' = [kind |-> "disconnect", returned |-> ~r.raises]
  /\ input' = [entry |-> "disconnect"]
  /\ obs' = NoObs
  /\ work' = NoWork
  /\ UNCHANGED <<others, constraints, nodes, edges, chunks, uuid, ops, pc, docIds, raised>>

\* Neo4jDatabase.create_node
CallCreateNode(node) ==
  /\ Idle
  /\ ops' = ops + 1
  /\ \E up \in BOOLEAN :
       LET r == CreateNode("svc", up, nodes, node) IN
       /\ nodes' = r.nodes
       /\ res' = [kind |-> "adapter", st |-> r.st, returned |-> r.st \in {"ok"}]
  /\ input' = [entry |-> "create_node", node |-> node]
  /\ obs' = [NoObs EXCEPT !.nodeReqs = SessionRuns("svc")]
  /\ work' = NoWork
  /\ UNCHANGED <<others, constraints, connected, edges, chunks, uuid, pc, docIds, raised>>

\* Neo4jDatabase.create_relationship
CallCreateRelationship(start_id, end_id) ==
  /\ Idle
  /\ ops' = ops + 1
  /\ \E up \in BOOLEAN :
       LET r == CreateRelationship("svc", up, nodes, edges, start_id, end_id, "STORED_IN", TRUE)
       IN
       /\ edges' = r.edges
       /\ res' = [kind |-> "adapter", st |-> r.st, returned |-> r.st \in {"ok"}]
  /\ input' = [entry |-> "create_relationship", start_id |-> start_id, end_id |-> end_id]
  /\ obs' = [NoObs EXCEPT !.edgeReqs = SessionRuns("svc")]
  /\ work' = NoWork
  /\ UNCHANGED <<others, constraints, connected, nodes, chunks, uuid, pc, docIds, raised>>

AdapterNext ==
  \/ Connect
  \/ Disconnect
  \/ \E node \in AdapterNodes : CallCreateNode(node)
  \/ \E start_id \in {UriId(1), UriId(2)}, end_id \in {UriId(2)} :
       CallCreateRelationship(start_id, end_id)

AdapterSpec == Init /\ [][AdapterNext]_vars

\* ---------------------------------------------------------- ontology manager
Triple(s, p, o) == [s |-> s, p |-> p, o |-> o]

File(stem, ext, parses, triples) ==
  [path |-> [stem |-> stem, ext |-> ext], parses |-> parses, triples |-> triples]

\* a.ttl, b.ttl and a.owl give one substance three hazard classes; c.ttl is malformed
OntologyFiles ==
  {File(1, "ttl", TRUE, {Triple("Acid", "hazardClass", "corrosive")}),
   File(2, "ttl", TRUE, {Triple("Acid", "hazardClass", "flammable")}),
   File(1, "owl", TRUE, {Triple("Acid", "type", "Class"), Triple("Acid", "hazardClass", "toxic")}),
   File(3, "ttl", FALSE, {})}

Directories == {d \in SUBSET OntologyFiles : Cardinality(d) <= 2}

\* format_parsers: the position of a file's pattern in the dict
PatternRank(ext) == CASE ext = "ttl" -> 1 [] ext = "owl" -> 2 [] OTHER -> 3

\* the orders in which load_ontology_files can visit a directory: pattern by
\* pattern, and within a pattern in the order rglob yields the paths, which is the
\* order of the directory listing
ScanOrders(dir) ==
  {order \in [1..Cardinality(dir) -> dir] :
     /\ \A f \in dir : \E i \in DOMAIN order : order[i] = f
     /\ \A i \in DOMAIN order, j \in DOMAIN order :
          i < j => PatternRank(order[i].path.ext) <= PatternRank(order[j].path.ext)}

\* Graph.parse of one file: the file's triples join the set; a file that does not
\* parse adds nothing
ParseFile(g, file) == IF file.parses THEN g \cup file.triples ELSE g

ClassData == {[uri |-> "Base", label |-> "base"], [uri |-> "Acid", label |-> ""]}

\* add_class: the triples it adds, in order
AddClassTriples(class_data) ==
  <<Triple(class_data.uri, "type", "Class")>>
  \o (IF class_data.label # "" THEN <<Triple(class_data.uri, "label", class_data.label)>>
      ELSE << >>)

\* get_classes
GetClasses(g) == {tr.s : tr \in {x \in g : x.p = "type" /\ x.o = "Class"}}

Mutators == {"load_ontology_files", "add_class"}

Calls ==
  {[method |-> "load_ontology_files", directory |-> d] : d \in Directories}
  \cup {[method |-> "add_class", class_data |-> c] : c \in ClassData}
  \cup {[method |-> "get_classes"]}

\* a parser that waits for the file's content on the event loop
Suspends_InParse(method) == method = "load_ontology_files"

\* whether a step of the method hands control back to the event loop: every await
\* in the manager awaits one of its own coroutines, and none of those waits
Suspends(method) == FALSE

CanRun(t) == running = t \/ running = "none"

\* a caller schedules a call of the manager
Schedule(t, call) ==
  /\ pc = "idle" /\ ops < MaxOps
  /\ task[t].pc \in {"idle", "done"}
  /\ ops' = ops + 1
  /\ task' = [task EXCEPT ![t] = [pc |-> "ready", call |-> call]]
  /\ UNCHANGED <<validatorErrors, metrics_history, graph, running, constraints, connected,
                 nodes, edges, chunks, uuid, pc, input, work, res, obs, docIds, raised>>

\* the event loop starts the coroutine
Enter(t) ==
  /\ task[t].pc = "ready"
  /\ running = "none"
  /\ running' = t
  /\ LET call == task[t].call IN
     \E order \in (IF call.method = "load_ontology_files" THEN ScanOrders(call.directory)
                    ELSE {<< >>}) :
       task' = [task EXCEPT ![t] =
                  [pc |-> "in", call |-> call,
                   todo |-> IF call.method = "add_class" THEN AddClassTriples(call.class_data)
                            ELSE order,
                   loaded |-> << >>]]
  /\ UNCHANGED <<validatorErrors, metrics_history, graph, constraints, connected,
                 nodes, edges, chunks, uuid, ops, pc, input, work, res, obs, docIds, raised>>

\* one iteration of the loading loop, or one graph.add of add_class
Step(t) ==
  /\ task[t].pc = "in"
  /\ CanRun(t)
  /\ task[t].todo # << >>
  /\ LET head == task[t].todo[1]
         method == task[t].call.method
     IN
     /\ graph' = IF method = "load_ontology_files" THEN ParseFile(graph, head)
                  ELSE graph \cup {head}
     /\ task' = [task EXCEPT ![t].todo = Tail(@),
                             ![t].loaded = IF method = "load_ontology_files" /\ head.parses
                                           THEN Append(@, head) ELSE @]
     /\ running' = IF Suspends(method) THEN "none" ELSE t
  /\ UNCHANGED <<validatorErrors, metrics_history, constraints, connected,
                 nodes, edges, chunks, uuid, ops, pc, input, work, res, obs, docIds, raised>>

\* the method returns
Return(t) ==
  /\ task[t].pc = "in"
  /\ CanRun(t)
  /\ task[t].todo = << >>
  /\ LET call == task[t].call IN
     task' = [task EXCEPT ![t] =
                [pc |-> "done", call |-> call, loaded |-> task[t].loaded,
                 graph |-> graph,
                 result |-> IF call.method = "load_ontology_files"
                              THEN Len(task[t].loaded) > 0
                            ELSE IF call.method = "get_classes" THEN GetClasses(graph)
                            ELSE TRUE]]
  /\ running' = "none"
  /\ UNCHANGED <<validatorErrors, metrics_history, graph, constraints, connected,
                 nodes, edges, chunks, uuid, ops, pc, input, work, res, obs, docIds, raised>>

OntologyNext ==
  \/ \E t \in Tasks, call \in Calls : Schedule(t, call)
  \/ \E t \in Tasks : Enter(t)
  \/ \E t \in Tasks : Step(t)
  \/ \E t \in Tasks : Return(t)

OntologySpec == Init /\ [][OntologyNext]_vars


\* ------------------------------------------------------------- properties
\* C1: in an Ontology->Graph run, a step-4 quality score below 0.7 means step 5
\* does not execute and the run sends no node create and no edge create
C1_QualityGateBlocksStorage ==
  (res.kind = "onto" /\ res.step4 # "none" /\ ~QualityPasses(res.qnum, res.qden))
    => (res.step5 = "none" /\ obs.nodeReqs = 0 /\ obs.edgeReqs = 0)

OntoSteps == <<"step1", "step2", "step3", "step4", "step5">>

\* C2: in an Ontology->Graph run, when stage k does not succeed no later stage
\* executes, and the result holds the stage results of stages 1..k only
C2_OntoHaltsAtFailedStage ==
  res.kind = "onto" =>
    \A k \in 1..5 : res[OntoSteps[k]] = "fail" =>
      \A j \in (k + 1)..5 : res[OntoSteps[j]] = "none"

DocSteps == <<"s1", "s2", "s3", "s4", "s5", "s6", "s7">>

\* C3: in a Document->Graph run, when a stage fails no later stage executes: the
\* run is over, no chunk is upserted after a failure before or in stage 5, and no
\* node or edge create is sent
C3_DocShortCircuits ==
  res.kind = "doc" =>
    \A k \in 1..7 : res[DocSteps[k]] = "fail" =>
      /\ \A j \in (k + 1)..7 : res[DocSteps[j]] = "none"
      /\ pc \in {"d_ret", "idle"}
      /\ ~res.success
      /\ (k < 5 => obs.vecReqs = 0)
      /\ obs.nodeReqs = 0 /\ obs.edgeReqs = 0

C3_Witness ==
  /\ res.kind = "doc" /\ pc = "idle" /\ res.returned
  /\ res.s4 = "ok" /\ res.s5 = "fail" /\ res.s6 = "none"
  /\ input.doc.ents # << >>

\* C4: no STORED_IN edge of the graph joins a substance to a container whose
\* (hazard class, material) pair is in the forbidden table: the create of such
\* an edge is rejected
C4_StoredInNeverForbidden ==
  \A e \in 1..Len(edges) : edges[e].type = "STORED_IN" =>
    \A i \in NodesWithId(nodes, edges[e].src), j \in NodesWithId(nodes, edges[e].dst) :
      (nodes[i].label = "HazardousSubstance" /\ nodes[j].label = "Container")
        => ~Forbidden(nodes[i].attr, nodes[j].attr)

\* C5: every edge is created between nodes that exist at that time; a create
\* whose source or target resolves to no node adds no edge.  A stage creates
\* its nodes before its edges and no node is deleted, so the nodes at the time
\* of an edge's creation are among those the graph holds when the stage ends
C5_EdgeEndpointsExist ==
  [][\A e \in (Len(edges) + 1)..Len(edges') :
       /\ NodesWithId(nodes', edges'[e].src) # {}
       /\ NodesWithId(nodes', edges'[e].dst) # {}]_vars

C5_Witness ==
  /\ res.kind = "svc" /\ res.success
  /\ Len(edges) > 0
  /\ NodesWithId(nodes, edges[Len(edges)].src) # {}

C8_UnavailableStoreFailsRun ==
  (pc = "idle" /\ obs.down # "none") =>
    CASE res.kind = "onto" -> ~res.overall_success
      [] res.kind = "doc" -> ~res.success /\ (obs.down = "s5" => res.s6 = "none")
      [] OTHER -> TRUE

C10_SameContentSameId ==
  \A a \in docIds, b \in docIds : a[1] = b[1] => a[2] = b[2]

\* the chunks the runs on one document's content have put in the vector store
ChunksOfContent(doc) == {c \in chunks : <<doc.content, c.document_id>> \in docIds}

NodesOfRun(doc, document_id) ==
  {i \in 1..Len(nodes) :
     /\ nodes[i].id.k = "uuid"
     /\ nodes[i].id.n > document_id.n
     /\ nodes[i].id.n <= document_id.n + CountChemical(doc.ents)}

NodesOfContent(doc) ==
  UNION {NodesOfRun(doc, r[2]) : r \in {x \in docIds : x[1] = doc.content}}

C13_CreateExistingIdIsNoOp ==
  \A i \in 1..Len(nodes), j \in 1..Len(nodes) :
    (nodes[i].id = nodes[j].id /\ nodes[i].label = nodes[j].label) => i = j

\* C14: every RiskAssessment in the graph with risk level high has non-empty
\* emergency_procedures, and every one with risk level critical has non-empty
\* emergency_procedures and non-empty PPE
C14_StoredAssessmentsComplete ==
  \A i \in 1..Len(nodes) :
    nodes[i].label = "RiskAssessment" =>
      /\ nodes[i].attr \in {"high", "critical"} => nodes[i].emergency_procedures # NoText
      /\ nodes[i].attr = "critical" => nodes[i].ppe_required # NoText

\* C15: a substances batch whose hazard_class column holds a value outside the
\* vocabulary is never reported valid by validate_csv_structure: the ingestion
\* that validated it does not go on to the row loop and sends no node create
C15_OutOfVocabularyBatchInvalid ==
  (/\ input.entry = "ingest_csv_data"
   /\ obs.validated
   /\ input.file.data_type = "substances"
   /\ "hazard_class" \in input.file.columns
   /\ ValidateFieldValues(input.file.rows) # << >>)
    => (pc # "c_ingest" /\ obs.nodeReqs = 0)

\* C16: the score step 4 of an Ontology->Graph run compares against 0.7 equals the
\* quality engine's weighted score of the validated batch
C16_GateScoreIsEngineScore ==
  (res.kind = "onto" /\ res.step4 # "none" /\ work.validated_triples # << >>)
    => res.qnum * OverallScoreDen(work.validated_triples)
         = OverallScoreNum(work.validated_triples) * 10 * res.qden

\* C17: after step 4 of an Ontology->Graph run has checked a batch, its quality
\* report holds an issue for every validated (substance, container) pair the
\* compatibility table forbids
C17_ForbiddenPairsReported ==
  (res.kind = "onto" /\ res.step4 # "none" /\ work.validated_triples # << >>)
    => \A s \in Range(work.validated_triples), c \in Range(work.validated_triples) :
         (/\ s.type = "HazardousSubstance"
          /\ c.type = "Container"
          /\ Forbidden(s.attr, c.attr))
           => <<s.uri, c.uri>> \in res.quality_issues

\* C18: a validation of a table that lacks k required columns reports exactly k
\* missing-column errors, and the checks still run on the columns present: a
\* value outside the vocabulary in a present hazard_class column is reported
C18_OneErrorPerMissingColumn ==
  input.entry \in {"validate_csv_structure", "CSVValidator.validate"} =>
    LET file == input.data
        missing == Range(RequiredFields(file.data_type)) \ file.columns
        reported == Range(res.errors)
    IN /\ Cardinality({e \in reported : e.kind = "missing"}) = Cardinality(missing)
       /\ (/\ "hazard_class" \in file.columns
           /\ \E i \in 1..Len(file.rows) :
                file.rows[i].attr # "" /\ file.rows[i].attr \notin HazardClasses)
            => \E e \in reported : e.kind = "value" /\ e.field = "hazard_class"

\* C19: on every validation path that checks it, a molecular weight x is
\* accepted if and only if 0 < x < 10000, both bounds strict
C19_WeightAcceptedIffStrictlyInside ==
  /\ input.entry = "is_valid_molecular_weight"
       => (res.valid <=> (0 < input.data.molecular_weight
                          /\ input.data.molecular_weight < 10000))
  /\ (/\ input.entry = "validate_csv_structure"
      /\ input.data.columns = {"name", "hazard_class", "molecular_weight"})
       => (res.valid <=> \A i \in 1..Len(input.data.rows) :
                           /\ 0 < input.data.rows[i].molecular_weight
                           /\ input.data.rows[i].molecular_weight < 10000)

\* C20: when a validator validates the record it validated in the call before,
\* the errors it reports are those it reported for the first validation
C20_SecondValidationSameErrors ==
  [][(/\ ops' = ops + 1
      /\ input.entry \in {"validate_csv_structure", "validate_safety_rules",
                          "CSVValidator.validate", "CompatibilityValidator.validate"}
      /\ input'.entry = input.entry
      /\ input'.data = input.data)
       => res'.errors = res.errors]_vars

C22_EmptyBatchScoresZero ==
  (input.entry = "calculate_overall_quality_score" /\ input.data = << >>)
    => res.quality_metrics.overall_score[1] = 0

\* the grade that belongs to the score num / den
GradeOf(num, den, grade) ==
  /\ grade = "A" <=> 10 * num >= 9 * den
  /\ grade = "B" <=> (10 * num >= 8 * den /\ 10 * num < 9 * den)
  /\ grade = "C" <=> (10 * num >= 7 * den /\ 10 * num < 8 * den)
  /\ grade = "D" <=> (10 * num >= 6 * den /\ 10 * num < 7 * den)
  /\ grade = "F" <=> 10 * num < 6 * den

\* C27: the letter grade of every score is A iff s >= 0.9, B iff 0.8 <= s < 0.9,
\* C iff 0.7 <= s < 0.8, D iff 0.6 <= s < 0.7 and F iff s < 0.6, for the scores
\* graded directly and for the computed scores kept in the history
C27_GradeMatchesScore ==
  /\ res.kind = "grade" => GradeOf(input.data, 1000, res.quality_grade)
  /\ \A i \in 1..Len(metrics_history) :
       GradeOf(metrics_history[i].overall_score[1], metrics_history[i].overall_score[2],
               metrics_history[i].quality_grade)

C27_Witness ==
  /\ res.kind = "grade"
  /\ input.data = 900
  /\ res.quality_grade = "A"
  /\ \E i \in 1..Len(metrics_history) : metrics_history[i].quality_grade # "A"

PathLess(p, q) ==
  LET Spelling(ext) == CASE ext = "owl" -> 1 [] ext = "ttl" -> 2 [] OTHER -> 3 IN
  \/ p.stem < q.stem
  \/ p.stem = q.stem /\ Spelling(p.ext) < Spelling(q.ext)

LoadedInPathOrder(loaded) ==
  \A i \in 1..Len(loaded), j \in 1..Len(loaded) : i < j => PathLess(loaded[i].path, loaded[j].path)

LastWriterWins(loaded, g) ==
  \A i \in 1..Len(loaded), j \in 1..Len(loaded) :
    i < j => \A x \in loaded[i].triples, y \in loaded[j].triples :
               (x.s = y.s /\ x.p = y.p /\ x.o # y.o) => x \notin g

\* C24: a directory scan loads the ontology files in lexicographic order of their
\* paths, and where two files give the same URI different values of a property,
\* only the value of the file loaded last remains in the store
C24_LexicographicLastWriterWins ==
  \A t \in Tasks :
    (task[t].pc = "done" /\ task[t].call.method = "load_ontology_files")
      => /\ LoadedInPathOrder(task[t].loaded)
         /\ LastWriterWins(task[t].loaded, task[t].graph)

C28_SuccessOnlyIfEveryStageSucceeded ==
  (res.kind = "doc" /\ res.success)
    => /\ \A k \in 1..7 : res[DocSteps[k]] # "fail"
       /\ \A k \in {1, 3, 4, 5, 6, 7} : res[DocSteps[k]] = "ok"
       /\ pc \in {"d_ret", "idle"}

\* a returned successful run whose last stage created a node
C28_Witness ==
  /\ res.kind = "doc" /\ res.success /\ res.returned /\ pc = "idle"
  /\ res.s7 = "ok" /\ res.kg_nodes_created > 0

C29_ValidatedRelationshipsBecomeEdges ==
  (/\ res.kind = "onto" /\ res.step5 # "none" /\ obs.down = "none"
   /\ res.total_entities_created = CountSeq(work.validated_triples,
                                            {t \in Range(work.validated_triples) : IsEntity(t)}))
    => LET vt == work.validated_triples IN
       \A r \in {t \in Range(vt) : IsRelation(t)} :
         \A s \in {t \in Range(vt) : IsEntity(t) /\ t.uri = r.source},
            d \in {t \in Range(vt) : IsEntity(t) /\ t.uri = r.target} :
           \E i \in 1..Len(nodes), j \in 1..Len(nodes), e \in 1..Len(edges) :
             /\ nodes[i].label = s.type /\ nodes[i].name = s.name /\ nodes[i].attr = s.attr
             /\ nodes[j].label = d.type /\ nodes[j].name = d.name /\ nodes[j].attr = d.attr
             /\ edges[e].src = nodes[i].id /\ edges[e].dst = nodes[j].id
             /\ edges[e].type = r.type

\* C30: CompatibilityValidator.validate reports a pair of the validated list as
\* incompatible whenever a rule of the validator marks the two chemicals
\* incompatible, in whichever order the rule and the list name them
C30_IncompatibleInEitherOrder ==
  input.entry = "CompatibilityValidator.validate" =>
    LET rules == input.data.rules
        chemicals == input.data.chemicals
    IN \A i \in 1..Len(chemicals), j \in 1..Len(chemicals) :
         (/\ i < j
          /\ \E k \in 1..Len(rules) :
               /\ rules[k][3] = "incompatible"
               /\ {rules[k][1], rules[k][2]} = {chemicals[i], chemicals[j]})
           => \E e \in 1..Len(res.errors) :
                res.errors[e] = [kind |-> "incompatible",
                                 chemicals |-> <<chemicals[i], chemicals[j]>>]

====
